---- MODULE Spec2Model ----
(***************************************************************************)
(* A model of wikitextprocessor/luaexec.py: the bridge between the         *)
(* wikitext expander and the Lua sandbox.                                  *)
(*                                                                         *)
(* Text is modelled as a sequence of tokens (each token an atomic piece of *)
(* text), so that concatenation is \o and a substring test for one of the  *)
(* markers the code looks for is a membership test on the sequence.        *)
(*                                                                         *)
(* Spec          call_lua_sandbox: the invocation protocol, the sandbox    *)
(*               lifecycle, the frame callbacks and the error classifier,  *)
(*               with nested (re-entrant) invocations.                     *)
(* SpecLoader    lua_loader applied to module references, character by     *)
(*               character (a name is a sequence of characters).           *)
(* SpecJson      mw_text_jsonencode applied to a guest table and            *)
(*               mw_text_jsondecode applied to the result.                 *)
(* SpecClassify  the part of call_lua_sandbox that follows the guest call  *)
(*               (a function of the guest's outcome, the expand stack and  *)
(*               the names), applied to every guest text of the bounds.    *)
(* SpecFrame     make_frame applied to a list or a dict of arguments: the  *)
(*               keys of the frame's args and the cleaning of the values.  *)
(* SpecFilter    the attribute filter initialize_lua gives to the runtime, *)
(*               applied to an attribute name.                             *)
(***************************************************************************)
EXTENDS Integers, Sequences, FiniteSets, TLC

VARIABLES
    lua,            \* ctx.lua: "None" or "LuaRuntime"
    lua_invoke,     \* ctx.lua_invoke: "unset" or "set"
    lua_reset_env,  \* ctx.lua_reset_env: "unset" or "set"
    env,            \* the guest global environment: "absent", "clean", "used"
    lua_depth,      \* ctx.lua_depth
    expand_stack,   \* ctx.expand_stack, a sequence of labels
    calls,          \* the activations of call_lua_sandbox in progress, outermost first
    ev,             \* what the last step did (the observable outcome of the step)
    inp,            \* the input of the function a function specification applies
    outp            \* its result, NotYet before the function is applied

vars == <<lua, lua_invoke, lua_reset_env, env, lua_depth, expand_stack, calls, ev, inp, outp>>

fnvars == <<inp, outp>>

machinevars == <<lua, lua_invoke, lua_reset_env, env, lua_depth, expand_stack, calls, ev>>

ctxvars == <<lua, lua_invoke, lua_reset_env, env, lua_depth, expand_stack>>

(***************************************************************************)
(* Bounds of the model.                                                    *)
(***************************************************************************)
MaxArgs == 2        \* longest invoke_args list
MaxNest == 2        \* deepest nesting of invocations in progress
MaxErrLen == 2      \* longest guest text, in tokens
MaxBody == 3        \* longest free part of a module reference, in characters
MaxEntries == 3     \* most entries of a guest table
MaxFrameArgs == 3   \* longest argument list given to make_frame
MaxValueLen == 2    \* longest argument value, in tokens
MaxAttrLen == 3     \* longest attribute name, in characters
MaxMembers == 2     \* most members of a JSON object
MaxCallArgs == 2    \* most arguments of a call of frame:callParserFunction
MaxExpands == 2     \* most invocations of a parser value's expand

\* cap of the ctx.lua_depth counter (it can exceed the nesting)
MaxLuaDepth == MaxNest + 1

\* longest expand stack: the page, a label for each invocation, and labels
\* that callbacks left behind
MaxStack == MaxNest + 2

NotYet == [pending |-> TRUE]

SeqsUpTo(S, n) == UNION {[1..k -> S] : k \in 0..n}

Contains(text, marker) == \E i \in 1..Len(text) : text[i] = marker

(***************************************************************************)
(* Texts of the program.                                                   *)
(***************************************************************************)
DebugErrorMarker == "'debug.error'"
TranslationsMarker == "Translations must be for attested and approved "
LangNilMarker == "attempt to index a nil value (local 'lang')"
GetLinkPageMarker == "in function 'Module:links.getLinkPage'"
TimeoutMarker == "Lua timeout error"
DeprecatedMsg == "This template is deprecated."
DeprecatedLangFrame == <<"check deprecated lang param usage">>

\* An invoke argument is plain text or a template call the expander expands.
ArgTokens == {"name", "{{t}}"}

\* The invoke_args lists: the module reference varies, the function name and
\* the macro arguments that follow it are fixed texts.
ArgLists ==
    {<<>>} \cup {<<m>> \o [i \in 1..k |-> IF i = 1 THEN "fn" ELSE "x"] :
                    m \in ArgTokens, k \in 0..(MaxArgs - 1)}

\* The pieces a guest's text may be made of.
GuestTokens ==
    {DebugErrorMarker, TranslationsMarker, LangNilMarker, GetLinkPageMarker,
     TimeoutMarker, DeprecatedMsg, "e\\u0301"}

GuestTexts == SeqsUpTo(GuestTokens, MaxErrLen)

\* The guest texts the state machine draws from: the outcome of an invocation
\* matters to it, the wording is classified under SpecClassify.
MachineTexts == {<<>>, <<"e\\u0301">>, <<TranslationsMarker>>, <<TimeoutMarker>>}

\* The caller-supplied argument expander: a template call expands to text
\* with surrounding white space.
expander(x) == IF x = "{{t}}" THEN " m&d " ELSE x

\* str.strip()
strip(x) == IF x = " m&d " THEN "m&d" ELSE x

\* html.escape()
html_escape(x) == IF x = "m&d" THEN "m&amp;d" ELSE x

\* unicodedata.normalize("NFC", text), token by token
NFC(text) == [i \in 1..Len(text) |-> IF text[i] = "e\\u0301" THEN "\\u00e9" ELSE text[i]]

\* "|".join(lst)
RECURSIVE join(_)
join(lst) ==
    IF Len(lst) = 0 THEN <<>>
    ELSE IF Len(lst) = 1 THEN <<lst[1]>>
    ELSE <<lst[1], "|">> \o join(Tail(lst))

\* The literal markup returned for a request with too few arguments.
TooFewMarkup(invoke_args) ==
    <<"{{", invoke_args[1], ":">> \o join(Tail(invoke_args)) \o <<"}}">>

\* Values of the guest: None, a string, or an exception object.
None == [t |-> "None", s |-> <<>>]
Str(s) == [t |-> "str", s |-> s]
Exc(s) == [t |-> "LuaError", s |-> s]

(***************************************************************************)
(* call_lua_sandbox: unpacking the guest's result and classifying a        *)
(* failure.                                                                *)
(***************************************************************************)

\* What ctx.lua_invoke can do: return a value that is no tuple, a tuple of
\* one, a pair (ok, text), or raise UnicodeDecodeError, lupa.LuaError or any
\* other exception (one a frame callback raised, re-raised by the runtime).
GuestOutcomes(texts) ==
    [kind : {"scalar", "tuple1"}, ok : BOOLEAN, text : {None}]
    \cup [kind : {"pair"}, ok : BOOLEAN, text : {None} \cup {Str(s) : s \in texts}]
    \cup [kind : {"LuaError"}, ok : {FALSE}, text : {Exc(s) : s \in texts}]
    \cup [kind : {"UnicodeDecodeError", "other"}, ok : {FALSE}, text : {None}]

\* Unpack with the decoding failure handled as a guest error
UnpackDecodeFails(out) ==
    CASE out.kind \in {"scalar", "tuple1"} -> [ok |-> out.ok, text |-> Str(<<>>)]
      [] out.kind = "pair" -> [ok |-> out.ok, text |-> out.text]
      [] out.kind = "UnicodeDecodeError" -> [ok |-> FALSE, text |-> Str(<<>>)]
      [] out.kind = "LuaError" -> [ok |-> FALSE, text |-> out.text]

\* ok, text as the try statement leaves them
Unpack(out) ==
    CASE out.kind \in {"scalar", "tuple1"} -> [ok |-> out.ok, text |-> Str(<<>>)]
      [] out.kind = "pair" -> [ok |-> out.ok, text |-> out.text]
      [] out.kind = "UnicodeDecodeError" -> [ok |-> TRUE, text |-> Str(<<>>)]
      [] out.kind = "LuaError" -> [ok |-> FALSE, text |-> out.text]

\* the text returned on success
SuccessText(text) == NFC(IF text.t = "None" THEN <<>> ELSE text.s)

\* the failure text: an exception is rendered with its traceback, anything
\* else goes through str()
ErrorText(text) ==
    CASE text.t = "LuaError" ->
            text.s \o <<"\n\tTraceback (most recent call last):", "\n\tlupa.LuaError: ">> \o text.s
      [] text.t = "None" -> <<"None">>
      [] text.t = "str" -> text.s

\* msg.startswith(prefix), msg being the first line of the text
MsgStartsWith(text, prefix) == Len(text) >= 1 /\ text[1] = prefix

\* Classify without the test for the translations marker
ClassifyNoTranslations(text, stack) ==
    IF Contains(text, DebugErrorMarker)
    THEN [result |-> "banner",
          log |-> IF MsgStartsWith(text, DeprecatedMsg) THEN "none" ELSE "debug"]
    ELSE IF Contains(text, LangNilMarker) /\ Contains(text, GetLinkPageMarker)
    THEN [result |-> "empty", log |-> "none"]
    ELSE IF Contains(stack, DeprecatedLangFrame)
    THEN [result |-> "banner", log |-> "debug"]
    ELSE [result |-> "banner", log |-> "error"]

\* Classify without the test of the expand stack
ClassifyIgnoringStack(text, stack) ==
    IF Contains(text, DebugErrorMarker)
    THEN [result |-> "banner",
          log |-> IF MsgStartsWith(text, DeprecatedMsg) THEN "none" ELSE "debug"]
    ELSE IF Contains(text, TranslationsMarker)
    THEN [result |-> "empty", log |-> "none"]
    ELSE IF Contains(text, LangNilMarker) /\ Contains(text, GetLinkPageMarker)
    THEN [result |-> "empty", log |-> "none"]
    ELSE [result |-> "banner", log |-> "error"]

\* the chain of tests on the failure text: what is returned and what is logged
Classify(text, stack) ==
    IF Contains(text, DebugErrorMarker)
    THEN [result |-> "banner",
          log |-> IF MsgStartsWith(text, DeprecatedMsg) THEN "none" ELSE "debug"]
    ELSE IF Contains(text, TranslationsMarker)
    THEN [result |-> "empty", log |-> "none"]
    ELSE IF Contains(text, LangNilMarker) /\ Contains(text, GetLinkPageMarker)
    THEN [result |-> "empty", log |-> "none"]
    ELSE IF Contains(stack, DeprecatedLangFrame)
    THEN [result |-> "banner", log |-> "debug"]
    ELSE [result |-> "banner", log |-> "error"]

\* BannerMsg without the test for the timeout marker
BannerMsgGeneric(text) == "Lua execution error"

BannerMsg(text) ==
    IF Contains(text, TimeoutMarker) THEN "Lua timeout error" ELSE "Lua execution error"

Banner(msg, modname, modfn) ==
    <<"<strong class=\"error\">", msg, " in Module:", html_escape(modname),
      " function ", html_escape(modfn), "</strong>">>

FailureText(text, stack, modname, modfn) ==
    IF Classify(text, stack).result = "empty" THEN <<>>
    ELSE Banner(BannerMsg(text), modname, modfn)

\* What call_lua_sandbox does once ctx.lua_invoke has returned or raised,
\* given the expand stack as the finally clause left it: whether the
\* exception escapes, and else the returned value and what was logged.
Finish(out, stack, modname, modfn) ==
    IF out.kind = "other"
    THEN [raised |-> TRUE, failed |-> FALSE, text |-> <<>>, log |-> "none", value |-> <<>>]
    ELSE LET r == Unpack(out)
             text == ErrorText(r.text)
         IN  [raised |-> FALSE,
              failed |-> ~r.ok,
              text |-> IF r.ok THEN <<>> ELSE text,
              log |-> IF r.ok
                      THEN (IF out.kind = "UnicodeDecodeError" THEN "debug" ELSE "none")
                      ELSE Classify(text, stack).log,
              value |-> IF r.ok THEN SuccessText(r.text)
                        ELSE FailureText(text, stack, modname, modfn)]

\* PopTo popping the invocation's own label only
PopOnce(stack, stack_len) == SubSeq(stack, 1, Len(stack) - 1)

\* the finally clause: pop the expand stack back to stack_len
PopTo(stack, stack_len) ==
    IF Len(stack) > stack_len THEN SubSeq(stack, 1, stack_len) ELSE stack

ModName(invoke_args) == strip(expander(invoke_args[1]))
ModFn(invoke_args) == strip(expander(invoke_args[2]))

LuaLabel(modname, modfn) == <<"Lua:", modname, ":", modfn, "()">>

(***************************************************************************)
(* The state machine of call_lua_sandbox.  One activation is a record; a   *)
(* nested invocation is entered while the activation below it is inside    *)
(* the expander (pc "names") or inside a frame callback that expands text  *)
(* (pc "callback").  depth0 and stack0 remember ctx.lua_depth and          *)
(* ctx.expand_stack at entry; prepared tells whether the activation        *)
(* initialized or reset the sandbox.                                       *)
(***************************************************************************)
Activation(args, prepared) ==
    [pc |-> "names", args |-> args, stack_len |-> 0, depth0 |-> lua_depth,
     stack0 |-> expand_stack, prepared |-> prepared]

Top == calls[Len(calls)]

Pop == SubSeq(calls, 1, Len(calls) - 1)

SetTop(a) == [calls EXCEPT ![Len(calls)] = a]

\* the step's observable outcome
Ev(event, level, ops) ==
    [event |-> event, level |-> level, ops |-> ops, args |-> <<>>, value |-> <<>>,
     failed |-> FALSE, text |-> <<>>, log |-> "none", depth0 |-> 0, stack0 |-> <<>>,
     popped |-> 0, kind |-> "none"]

Init ==
    /\ lua = "None"
    /\ lua_invoke = "unset"
    /\ lua_reset_env = "unset"
    /\ env = "absent"
    /\ lua_depth = 0
    /\ expand_stack \in {<<<<"page">>>>, <<DeprecatedLangFrame>>}
    /\ calls = <<>>
    /\ ev = Ev("start", 0, {})
    /\ inp = <<>>
    /\ outp = NotYet

\* call_lua_sandbox can be called: by the host at top level, or from the
\* expander while an outer invocation waits for it.
CanEnter ==
    /\ Len(calls) < MaxNest
    /\ lua_depth < MaxLuaDepth
    /\ calls # <<>> => Top.pc \in {"names", "callback"}

\* len(invoke_args) < 2
TooFew(invoke_args) == Len(invoke_args) < 2

\* A request with too few arguments: the markup is returned; with no argument
\* at all invoke_args[0] raises IndexError.
EnterTooFew(invoke_args) ==
    /\ UNCHANGED fnvars
    /\ CanEnter
    /\ TooFew(invoke_args)
    /\ ev' = [Ev(IF Len(invoke_args) = 0 THEN "raise" ELSE "return", Len(calls) + 1, {})
                EXCEPT !.args = invoke_args,
                       !.value = IF Len(invoke_args) = 0 THEN <<>> ELSE TooFewMarkup(invoke_args),
                       !.log = "debug", !.depth0 = lua_depth, !.stack0 = expand_stack]
    /\ UNCHANGED <<ctxvars, calls>>

\* NeedsLifecycle without the test of the depth
NeedsLifecycleAlways == TRUE

\* if ctx.lua_depth == 0
NeedsLifecycle == lua_depth = 0

\* LuaIsNone without the test: a runtime is constructed at every top-level call
LuaIsNoneAlways == TRUE

\* if ctx.lua is None
LuaIsNone == lua = "None"

\* ctx.lua_depth += 1, and on to the expansion of the names
Begin(invoke_args, prepared, ops) ==
    /\ lua_depth' = lua_depth + 1
    /\ calls' = Append(calls, Activation(invoke_args, prepared))
    /\ ev' = [Ev("enter", Len(calls) + 1, ops) EXCEPT !.args = invoke_args,
                  !.depth0 = lua_depth, !.stack0 = expand_stack]

Abort(invoke_args, ops) ==
    /\ ev' = [Ev("raise", Len(calls) + 1, ops) EXCEPT !.args = invoke_args,
                  !.depth0 = lua_depth, !.stack0 = expand_stack]
    /\ UNCHANGED <<lua_depth, calls>>

\* First call: initialize_lua.  ctx.lua is assigned before the two phases
\* are loaded; a phase that cannot be loaded raises.
EnterInitialize(invoke_args, outcome) ==
    /\ UNCHANGED fnvars
    /\ CanEnter
    /\ ~TooFew(invoke_args)
    /\ NeedsLifecycle
    /\ LuaIsNone
    /\ lua' = "LuaRuntime"
    /\ UNCHANGED expand_stack
    /\ \/ /\ outcome = "ok"
          /\ lua_invoke' = "set"
          /\ lua_reset_env' = "set"
          /\ env' = "clean"
          /\ Begin(invoke_args, TRUE, {"LuaRuntime", "phase1", "phase2", "set_entry_points"})
       \/ /\ outcome = "phase1_fails"
          /\ UNCHANGED <<lua_invoke, lua_reset_env, env>>
          /\ Abort(invoke_args, {"LuaRuntime", "phase1"})
       \/ /\ outcome = "phase2_fails"
          /\ UNCHANGED <<lua_invoke, lua_reset_env, env>>
          /\ Abort(invoke_args, {"LuaRuntime", "phase1", "phase2"})

\* Later top-level call: reset the environment and load phase 2 again.
EnterReset(invoke_args, outcome) ==
    /\ UNCHANGED fnvars
    /\ CanEnter
    /\ ~TooFew(invoke_args)
    /\ NeedsLifecycle
    /\ ~LuaIsNone
    /\ UNCHANGED <<lua, expand_stack>>
    /\ \/ /\ outcome = "ok"
          /\ lua_reset_env = "set"
          /\ lua_invoke' = "set"
          /\ lua_reset_env' = "set"
          /\ env' = "clean"
          /\ Begin(invoke_args, TRUE, {"lua_reset_env", "phase2", "set_entry_points"})
       \/ /\ outcome = "reset_fails"
          /\ UNCHANGED <<lua_invoke, lua_reset_env, env>>
          /\ Abort(invoke_args, {"lua_reset_env"})
       \/ /\ outcome = "phase2_fails"
          /\ lua_reset_env = "set"
          /\ env' = "clean"
          /\ UNCHANGED <<lua_invoke, lua_reset_env>>
          /\ Abort(invoke_args, {"lua_reset_env", "phase2"})

\* ctx.lua_depth is not 0: the sandbox is used as it is.
EnterNoLifecycle(invoke_args) ==
    /\ UNCHANGED fnvars
    /\ CanEnter
    /\ ~TooFew(invoke_args)
    /\ ~NeedsLifecycle
    /\ UNCHANGED <<lua, lua_invoke, lua_reset_env, env, expand_stack>>
    /\ Begin(invoke_args, FALSE, {})

\* The names are expanded, the frames built, the label pushed and the guest
\* function called.
InvokeGuest ==
    /\ UNCHANGED fnvars
    /\ calls # <<>>
    /\ Top.pc = "names"
    /\ Len(expand_stack) < MaxStack
    /\ expand_stack' = Append(expand_stack, LuaLabel(ModName(Top.args), ModFn(Top.args)))
    /\ calls' = SetTop([Top EXCEPT !.pc = "guest", !.stack_len = Len(expand_stack)])
    /\ env' = "used"
    /\ ev' = Ev("invoke", Len(calls), {"lua_invoke"})
    /\ UNCHANGED <<lua, lua_invoke, lua_reset_env, lua_depth>>

\* The expander raises while the names (or the parent's keys) are expanded.
ExpanderRaises ==
    /\ UNCHANGED fnvars
    /\ calls # <<>>
    /\ Top.pc = "names"
    /\ calls' = Pop
    /\ ev' = [Ev("raise", Len(calls), {}) EXCEPT !.args = Top.args,
                  !.depth0 = Top.depth0, !.stack0 = Top.stack0]
    /\ UNCHANGED ctxvars

\* frame:preprocess() and frame:expandTemplate(): without an argument they
\* return ""; else the label is pushed and the host expands the text.
FrameExpand(label, hasarg) ==
    /\ UNCHANGED fnvars
    /\ calls # <<>>
    /\ Top.pc = "guest"
    /\ IF hasarg
       THEN /\ Len(expand_stack) < MaxStack
            /\ expand_stack' = Append(expand_stack, <<label>>)
            /\ calls' = SetTop([Top EXCEPT !.pc = "callback"])
            /\ ev' = Ev("callback", Len(calls), {})
       ELSE /\ UNCHANGED <<expand_stack, calls>>
            /\ ev' = [Ev("callback", Len(calls), {}) EXCEPT !.log = "debug"]
    /\ UNCHANGED <<lua, lua_invoke, lua_reset_env, env, lua_depth>>

\* frame:extensionTag(): without an argument it returns ""; else the label
\* is pushed around tag_fn, and the result goes through preprocess.  When
\* tag_fn raises the label stays.
ExtensionTag(hasarg, tag_ok) ==
    /\ UNCHANGED fnvars
    /\ calls # <<>>
    /\ Top.pc = "guest"
    /\ IF ~hasarg
       THEN /\ UNCHANGED <<expand_stack, calls>>
            /\ ev' = [Ev("callback", Len(calls), {}) EXCEPT !.log = "debug"]
       ELSE /\ Len(expand_stack) < MaxStack
            /\ IF tag_ok
               THEN /\ expand_stack' = Append(expand_stack, <<"frame:preprocess()">>)
                    /\ calls' = SetTop([Top EXCEPT !.pc = "callback"])
                    /\ ev' = Ev("callback", Len(calls), {})
               ELSE /\ expand_stack' = Append(expand_stack, <<"extensionTag()">>)
                    /\ UNCHANGED calls
                    /\ ev' = Ev("callback_raise", Len(calls), {})
    /\ UNCHANGED <<lua, lua_invoke, lua_reset_env, env, lua_depth>>

\* The host expander returns to the callback, which pops its label.
CallbackReturn ==
    /\ UNCHANGED fnvars
    /\ calls # <<>>
    /\ Top.pc = "callback"
    /\ expand_stack' = SubSeq(expand_stack, 1, Len(expand_stack) - 1)
    /\ calls' = SetTop([Top EXCEPT !.pc = "guest"])
    /\ ev' = Ev("callback_return", Len(calls), {})
    /\ UNCHANGED <<lua, lua_invoke, lua_reset_env, env, lua_depth>>

\* The host expander raises inside the callback: the label is not popped and
\* the exception enters the guest.
CallbackRaises ==
    /\ UNCHANGED fnvars
    /\ calls # <<>>
    /\ Top.pc = "callback"
    /\ calls' = SetTop([Top EXCEPT !.pc = "guest"])
    /\ ev' = Ev("callback_raise", Len(calls), {})
    /\ UNCHANGED ctxvars

\* ctx.lua_invoke returns or raises: the try statement, the decrement of the
\* depth and the result.
GuestFinish(out) ==
    /\ UNCHANGED fnvars
    /\ calls # <<>>
    /\ Top.pc = "guest"
    /\ expand_stack' = PopTo(expand_stack, Top.stack_len)
    /\ calls' = Pop
    /\ UNCHANGED <<lua, lua_invoke, lua_reset_env, env>>
    /\ LET r == Finish(out, expand_stack', ModName(Top.args), ModFn(Top.args))
       IN  /\ lua_depth' = IF r.raised THEN lua_depth ELSE lua_depth - 1
           /\ ev' = [Ev(IF r.raised THEN "raise" ELSE "return", Len(calls), {}) EXCEPT
                       !.args = Top.args,
                       !.depth0 = Top.depth0, !.stack0 = Top.stack0,
                       !.popped = Len(expand_stack) - Len(expand_stack'),
                       !.failed = r.failed, !.text = r.text, !.log = r.log,
                       !.value = r.value, !.kind = out.kind]

Next ==
    \/ \E a \in ArgLists : EnterTooFew(a)
    \/ \E a \in ArgLists, o \in {"ok", "phase1_fails", "phase2_fails"} : EnterInitialize(a, o)
    \/ \E a \in ArgLists, o \in {"ok", "reset_fails", "phase2_fails"} : EnterReset(a, o)
    \/ \E a \in ArgLists : EnterNoLifecycle(a)
    \/ InvokeGuest
    \/ ExpanderRaises
    \/ \E l \in {"frame:preprocess()", "frame:expandTemplate()"}, h \in BOOLEAN : FrameExpand(l, h)
    \/ \E h, t \in BOOLEAN : ExtensionTag(h, t)
    \/ CallbackReturn
    \/ CallbackRaises
    \/ \E out \in GuestOutcomes(MachineTexts) : GuestFinish(out)

Spec == Init /\ [][Next]_vars

(***************************************************************************)
(* lua_loader.  A module reference is a sequence of characters.            *)
(***************************************************************************)
ModuleColon == <<"M", "o", "d", "u", "l", "e", ":">>

\* ctx.NAMESPACE_DATA["Module"] of an English and of a localized wiki
NamespaceData ==
    {[id |-> 828, name |-> <<"M", "o", "d", "u", "l", "e">>, aliases |-> {<<"M", "o", "d">>}],
     [id |-> 828, name |-> <<"M", "o", "d", "u", "l">>, aliases |-> {<<"M", "o", "d">>}]}

\* builtin_lua_search_paths: the roots in order, each with its ignore_modules
builtin_lua_search_paths ==
    <<[prefix |-> ".",
       ignore |-> {<<"s", "t", "r", "i", "n", "g">>, <<"d", "e", "b", "u", "g">>}],
      [prefix |-> "mediawiki-extensions-Scribunto/includes/engines/LuaCommon/lualib",
       ignore |-> {}]>>

Whitespace == {" ", "\n"}

ControlChars == {"\n"}

StartsWith(s, p) == Len(s) >= Len(p) /\ SubSeq(s, 1, Len(p)) = p

\* str.strip()
RECURSIVE StripLeft(_)
StripLeft(s) ==
    IF Len(s) > 0 /\ s[1] \in Whitespace THEN StripLeft(Tail(s)) ELSE s

RECURSIVE StripRight(_)
StripRight(s) ==
    IF Len(s) > 0 /\ s[Len(s)] \in Whitespace
    THEN StripRight(SubSeq(s, 1, Len(s) - 1)) ELSE s

Strip(s) == StripRight(StripLeft(s))

\* s[s.find(c) + 1 :], the whole of s when c is not in it
AfterFirst(s, c) ==
    IF \E i \in 1..Len(s) : s[i] = c
    THEN LET i == CHOOSE i \in 1..Len(s) : s[i] = c /\ \A j \in 1..(i - 1) : s[j] # c
         IN  SubSeq(s, i + 1, Len(s))
    ELSE s

\* re.sub(r"[\0-\037]", "", s)
RECURSIVE RemoveControl(_)
RemoveControl(s) ==
    IF Len(s) = 0 THEN <<>>
    ELSE IF s[1] \in ControlChars THEN RemoveControl(Tail(s))
    ELSE <<s[1]>> \o RemoveControl(Tail(s))

\* s.replace(a, b) for single characters
ReplaceChar(s, a, b) == [i \in 1..Len(s) |-> IF s[i] = a THEN b ELSE s[i]]

\* CollapseRuns leaving the runs as they are
CollapseRunsNot(s, c) == s

\* re.sub(c c+, c, s): each run of two or more c becomes one c
RECURSIVE CollapseRuns(_, _)
CollapseRuns(s, c) ==
    IF Len(s) < 2 THEN s
    ELSE IF s[1] = c /\ s[2] = c THEN CollapseRuns(Tail(s), c)
    ELSE <<s[1]>> \o CollapseRuns(Tail(s), c)

\* re.sub(r"^//+", "", s): an initial run of two or more slashes is removed
RECURSIVE DropSlashes(_)
DropSlashes(s) == IF Len(s) > 0 /\ s[1] = "/" THEN DropSlashes(Tail(s)) ELSE s

RemoveInitialSlashes(s) == IF StartsWith(s, <<"/", "/">>) THEN DropSlashes(s) ELSE s

\* the path of a library module
LibraryPath(modname) ==
    LET p1 == RemoveControl(modname)
        p2 == ReplaceChar(p1, ":", "/")
        p3 == ReplaceChar(p2, " ", "_")
        p4 == CollapseRuns(p3, "/")
        p5 == CollapseRuns(p4, ".")
        p6 == RemoveInitialSlashes(p5)
    IN  p6 \o <<".", "l", "u", "a">>

\* the rewriting of an alias prefix to the canonical prefix
Canonical(modname, ns_data) ==
    LET ns_prefix == ns_data.name \o <<":">>
    IN  IF \E alias \in ns_data.aliases : StartsWith(modname, alias \o <<":">>)
        THEN ns_prefix \o AfterFirst(modname, ":")
        ELSE modname

\* modname.startswith(("Module:", ns_prefix))
InModuleNamespace(modname, ns_prefix) ==
    StartsWith(modname, ModuleColon) \/ StartsWith(modname, ns_prefix)

\* IsInternal without the test
IsInternalNever(modname, ns_prefix) == FALSE

\* modname.startswith(("Module:_", ns_prefix + "_"))
IsInternal(modname, ns_prefix) ==
    StartsWith(modname, ModuleColon \o <<"_">>) \/ StartsWith(modname, ns_prefix \o <<"_">>)

\* WalkRoots without the test of ignore_modules
RECURSIVE WalkRootsNoIgnore(_, _, _, _)
WalkRootsNoIgnore(i, modname, files, tested) ==
    IF i > Len(builtin_lua_search_paths) THEN [found |-> 0, tested |-> tested]
    ELSE IF i \in files THEN [found |-> i, tested |-> Append(tested, i)]
    ELSE WalkRootsNoIgnore(i + 1, modname, files, Append(tested, i))

\* The roots tested in order: a root that ignores the module is skipped, the
\* first root with the file ends the walk.
RECURSIVE WalkRoots(_, _, _, _)
WalkRoots(i, modname, files, tested) ==
    IF i > Len(builtin_lua_search_paths) THEN [found |-> 0, tested |-> tested]
    ELSE IF modname \in builtin_lua_search_paths[i].ignore
    THEN WalkRoots(i + 1, modname, files, tested)
    ELSE IF i \in files THEN [found |-> i, tested |-> Append(tested, i)]
    ELSE WalkRoots(i + 1, modname, files, Append(tested, i))

NoData == [src |-> "None", root |-> 0, name |-> <<>>]

\* lua_loader(ctx, modname): store tells whether the content store has a page
\* for every title, files is the set of roots under which the path is a file.
\* The result: the data returned, the title read_by_title was asked for (if
\* any), the path and the roots tested.
lua_loader(modname0, ns_data, store, files) ==
    LET ns_prefix == ns_data.name \o <<":">>
        modname == Canonical(Strip(modname0), ns_data)
    IN  IF InModuleNamespace(modname, ns_prefix)
        THEN IF IsInternal(modname, ns_prefix)
             THEN [data |-> NoData, queried |-> FALSE, title |-> <<>>,
                   path |-> <<>>, tested |-> <<>>]
             ELSE [data |-> IF store THEN [src |-> "store", root |-> 0, name |-> modname]
                            ELSE NoData,
                   queried |-> TRUE, title |-> modname, path |-> <<>>, tested |-> <<>>]
        ELSE LET path == LibraryPath(modname)
                 w == WalkRoots(1, modname, files, <<>>)
             IN  [data |-> IF w.found = 0 THEN NoData
                           ELSE [src |-> "file", root |-> w.found, name |-> path],
                  queried |-> FALSE, title |-> <<>>, path |-> path, tested |-> w.tested]

(***************************************************************************)
(* SpecLoader: lua_loader applied to a module reference.                   *)
(***************************************************************************)
RefChars == {"a", "_", ".", "/", ":", " ", "\n"}

RefPrefixes ==
    {<<>>, ModuleColon, <<"M", "o", "d", "u", "l", ":">>, <<"M", "o", "d", ":">>}

RefBodies ==
    SeqsUpTo(RefChars, MaxBody)
    \cup {<<"s", "t", "r", "i", "n", "g">>, <<"d", "e", "b", "u", "g">>}

\* a reference: optional white space around a prefix and a free part
ModuleRefs ==
    {pad \o prefix \o body \o pad :
        pad \in {<<>>, <<" ">>}, prefix \in RefPrefixes, body \in RefBodies}

InitLoader ==
    /\ lua = "LuaRuntime"
    /\ lua_invoke = "set"
    /\ lua_reset_env = "set"
    /\ env = "used"
    /\ lua_depth = 1
    /\ expand_stack = <<>>
    /\ calls = <<>>
    /\ ev = Ev("start", 0, {})
    /\ inp \in [modname : ModuleRefs, ns_data : NamespaceData]
    /\ outp = NotYet

ApplyLoader(store, files) ==
    /\ outp = NotYet
    /\ outp' = [store |-> store, files |-> files,
                ret |-> lua_loader(inp.modname, inp.ns_data, store, files)]
    /\ UNCHANGED <<inp, machinevars>>

NextLoader ==
    \E store \in BOOLEAN, files \in SUBSET (1..Len(builtin_lua_search_paths)) :
        ApplyLoader(store, files)

SpecLoader == InitLoader /\ [][NextLoader]_vars

(***************************************************************************)
(* mw_text_jsonencode and mw_text_jsondecode.                              *)
(*                                                                         *)
(* A guest table is the sequence of its entries [k, v] in the order the    *)
(* runtime enumerates them (x.keys(), x.values(), x.items()): Lua does not *)
(* specify that order, even for numeric keys, so every order is a table    *)
(* of the model.  A key is an integer or a string (a sequence of           *)
(* characters).  A Python dict is the sequence of its items in insertion   *)
(* order, a JSON document is the value json.loads makes of it.             *)
(***************************************************************************)
IntKey(n) == [t |-> "int", n |-> n]
StrKey(str) == [t |-> "str", s |-> str]
StrVal(str) == [kind |-> "str", s |-> str]
Table(entries) == [kind |-> "table", e |-> entries]
PyList(items) == [kind |-> "list", items |-> items]
PyDict(items) == [kind |-> "dict", items |-> items]

DigitChars == <<"0", "1", "2", "3", "4", "5", "6", "7", "8", "9">>

\* the order of the characters (code points)
CharOrder == <<"-">> \o DigitChars \o <<"x">>

CharRank(c) == CHOOSE i \in 1..Len(CharOrder) : CharOrder[i] = c

\* str(n)
RECURSIVE NatStr(_)
NatStr(n) ==
    IF n < 10 THEN <<DigitChars[n + 1]>>
    ELSE NatStr(n \div 10) \o <<DigitChars[(n % 10) + 1]>>

IntStr(n) == IF n < 0 THEN <<"-">> \o NatStr(-n) ELSE NatStr(n)

\* str(k) of a key
KeyStr(k) == IF k.t = "int" THEN IntStr(k.n) ELSE k.s

\* str.isdigit()
IsDigit(str) ==
    Len(str) > 0 /\ \A i \in 1..Len(str) : \E d \in 1..Len(DigitChars) : DigitChars[d] = str[i]

\* int(str) of a string of digits
RECURSIVE ParseInt(_)
ParseInt(str) ==
    IF Len(str) = 0 THEN 0
    ELSE 10 * ParseInt(SubSeq(str, 1, Len(str) - 1))
         + ((CHOOSE d \in 1..Len(DigitChars) : DigitChars[d] = str[Len(str)]) - 1)

\* d[k] = v on a dict
DictSet(items, k, v) ==
    IF \E i \in 1..Len(items) : items[i].k = k
    THEN [i \in 1..Len(items) |-> IF items[i].k = k THEN [k |-> k, v |-> v] ELSE items[i]]
    ELSE Append(items, [k |-> k, v |-> v])

\* del d[k]
DictDel(items, k) == SelectSeq(items, LAMBDA e : e.k # k)

\* all(isinstance(k, int) for k in x.keys())
AllIntKeys(entries) == \A i \in 1..Len(entries) : entries[i].k.t = "int"

\* keys = sorted(x.keys()); all(keys[i] == i + 1 for i in range(len(keys)))
IsRun(entries) == {entries[i].k.n : i \in 1..Len(entries)} = 1..Len(entries)

\* conv_to_dict
ConvToDict(entries, flags) ==
    \/ flags % 2 = 1
    \/ ~AllIntKeys(entries)
    \/ ~IsRun(entries)

\* recurse of mw_text_jsonencode
RECURSIVE EncodeValue(_, _)
RECURSIVE EncodeDict(_, _, _)
EncodeValue(x, flags) ==
    IF x.kind # "table" THEN x
    ELSE IF ConvToDict(x.e, flags) THEN PyDict(EncodeDict(x.e, flags, <<>>))
    ELSE PyList([i \in 1..Len(x.e) |-> EncodeValue(x.e[i].v, flags)])

\* for k, v in x.items(): ht[str(k)] = recurse(v)
EncodeDict(entries, flags, ht) ==
    IF Len(entries) = 0 THEN ht
    ELSE EncodeDict(Tail(entries), flags,
                    DictSet(ht, StrKey(KeyStr(entries[1].k)), EncodeValue(entries[1].v, flags)))

\* a < b for strings
RECURSIVE StrLess(_, _)
StrLess(a, b) ==
    IF Len(b) = 0 THEN FALSE
    ELSE IF Len(a) = 0 THEN TRUE
    ELSE IF a[1] = b[1] THEN StrLess(Tail(a), Tail(b))
    ELSE CharRank(a[1]) < CharRank(b[1])

\* the items sorted by key
RECURSIVE InsertItem(_, _)
InsertItem(sorted, item) ==
    IF Len(sorted) = 0 THEN <<item>>
    ELSE IF StrLess(item.k.s, sorted[1].k.s) THEN <<item>> \o sorted
    ELSE <<sorted[1]>> \o InsertItem(Tail(sorted), item)

RECURSIVE SortItems(_)
SortItems(items) ==
    IF Len(items) = 0 THEN <<>>
    ELSE InsertItem(SortItems(SubSeq(items, 1, Len(items) - 1)), items[Len(items)])

\* json.dumps(value, sort_keys=True): the document, its objects in key order
RECURSIVE json_dumps(_)
json_dumps(value) ==
    CASE value.kind = "list" ->
            PyList([i \in 1..Len(value.items) |-> json_dumps(value.items[i])])
      [] value.kind = "dict" ->
            LET inner == [i \in 1..Len(value.items) |->
                            [k |-> value.items[i].k, v |-> json_dumps(value.items[i].v)]]
            IN  PyDict(SortItems(inner))
      [] OTHER -> value

mw_text_jsonencode(x, flags) == json_dumps(EncodeValue(x, flags))

\* recurse of mw_text_jsondecode
RECURSIVE DecodeValue(_, _)
RECURSIVE DecodeDict(_, _, _)
DecodeValue(x, flags) ==
    CASE x.kind = "list" ->
            Table([i \in 1..Len(x.items) |->
                      [k |-> IntKey(i), v |-> DecodeValue(x.items[i], flags)]])
      [] x.kind = "dict" ->
            IF flags % 2 = 1
            THEN Table([i \in 1..Len(x.items) |->
                          [k |-> x.items[i].k, v |-> DecodeValue(x.items[i].v, flags)]])
            ELSE Table(DecodeDict(x.items, flags, x.items))
      [] OTHER -> x

\* for k, v in list(x.items()): a key of digits is deleted and set again as
\* an integer, any other key is set in place
DecodeDict(todo, flags, x) ==
    IF Len(todo) = 0 THEN x
    ELSE LET k == todo[1].k
             v == DecodeValue(todo[1].v, flags)
         IN  DecodeDict(Tail(todo), flags,
                        IF IsDigit(k.s)
                        THEN DictSet(DictDel(x, k), IntKey(ParseInt(k.s)), v)
                        ELSE DictSet(x, k, v))

\* json.loads(s) followed by recurse
mw_text_jsondecode(doc, flags) == DecodeValue(doc, flags)

(***************************************************************************)
(* SpecJson: a guest table is encoded, the document is decoded.            *)
(***************************************************************************)
TableKeys == {IntKey(n) : n \in (-1)..MaxEntries} \cup {StrKey(<<"x">>)}

TableValues == {StrVal("a"), Table(<<[k |-> IntKey(2), v |-> StrVal("b")]>>)}

GuestTables ==
    {Table(e) : e \in {e \in SeqsUpTo([k : TableKeys, v : TableValues], MaxEntries) :
                          \A i, j \in 1..Len(e) : e[i].k = e[j].k => i = j}}

InitJson ==
    /\ lua = "LuaRuntime"
    /\ lua_invoke = "set"
    /\ lua_reset_env = "set"
    /\ env = "used"
    /\ lua_depth = 1
    /\ expand_stack = <<>>
    /\ calls = <<>>
    /\ ev = Ev("start", 0, {})
    /\ inp \in [table : GuestTables, flags : {0, 1}]
    /\ outp = NotYet

JsonEncode ==
    /\ outp = NotYet
    /\ outp' = [doc |-> mw_text_jsonencode(inp.table, inp.flags), decoded |-> NotYet]
    /\ UNCHANGED <<inp, machinevars>>

JsonDecode ==
    /\ outp # NotYet
    /\ outp.decoded = NotYet
    /\ outp' = [outp EXCEPT !.decoded = mw_text_jsondecode(outp.doc, inp.flags)]
    /\ UNCHANGED <<inp, machinevars>>

NextJson == JsonEncode \/ JsonDecode

SpecJson == InitJson /\ [][NextJson]_vars

(***************************************************************************)
(* SpecDecode: mw_text_jsondecode applied to a JSON object (json.loads     *)
(* keeps one member for each name of the text).                            *)
(***************************************************************************)
MemberNames == {StrKey(<<"1">>), StrKey(<<"0", "1">>), StrKey(<<"2">>), StrKey(<<"x">>)}

MemberValues ==
    {StrVal("a"),
     PyList(<<StrVal("b")>>),
     PyDict(<<[k |-> StrKey(<<"1">>), v |-> StrVal("c")]>>)}

JsonObjects ==
    {PyDict(m) : m \in {m \in SeqsUpTo([k : MemberNames, v : MemberValues], MaxMembers) :
                            \A i, j \in 1..Len(m) : m[i].k = m[j].k => i = j}}

InitDecode ==
    /\ lua = "LuaRuntime"
    /\ lua_invoke = "set"
    /\ lua_reset_env = "set"
    /\ env = "used"
    /\ lua_depth = 1
    /\ expand_stack = <<>>
    /\ calls = <<>>
    /\ ev = Ev("start", 0, {})
    /\ inp \in [doc : JsonObjects, flags : {0, 1}]
    /\ outp = NotYet

ApplyDecode ==
    /\ outp = NotYet
    /\ outp' = mw_text_jsondecode(inp.doc, inp.flags)
    /\ UNCHANGED <<inp, machinevars>>

NextDecode == ApplyDecode

SpecDecode == InitDecode /\ [][NextDecode]_vars

(***************************************************************************)
(* SpecClassify: Finish applied to every outcome of the guest.             *)
(***************************************************************************)
ClassifyInputs ==
    [out : GuestOutcomes(GuestTexts),
     stack : {<<<<"page">>>>, <<DeprecatedLangFrame, <<"page">>>>},
     modname : {"name", "m&d"},
     modfn : {"fn"}]

InitClassify ==
    /\ lua = "LuaRuntime"
    /\ lua_invoke = "set"
    /\ lua_reset_env = "set"
    /\ env = "used"
    /\ lua_depth = 0
    /\ expand_stack = <<>>
    /\ calls = <<>>
    /\ ev = Ev("start", 0, {})
    /\ inp \in ClassifyInputs
    /\ outp = NotYet

ApplyFinish ==
    /\ outp = NotYet
    /\ outp' = Finish(inp.out, inp.stack, inp.modname, inp.modfn)
    /\ UNCHANGED <<inp, machinevars>>

NextClassify == ApplyFinish

SpecClassify == InitClassify /\ [][NextClassify]_vars

(***************************************************************************)
(* make_frame: the arguments of a frame.                                   *)
(*                                                                         *)
(* An argument is a text, a sequence of tokens: a character (a digit, a    *)
(* letter, a space, "=", "<", "&") or a longer piece ("noinclude/>",       *)
(* "amp;", "lt;").  frame_args is a dict, the sequence of its items.       *)
(***************************************************************************)
\* the largest key an explicit numeric name can give
MaxKey == 1000

\* the tokens that hold one of the characters < > = " '
NameForbidden == {"<", ">", "=", "\"", "'", "noinclude/>"}

\* s.find(c) as an index from 1, 0 when c is not in s
FirstIndex(s, c) ==
    IF \E i \in 1..Len(s) : s[i] = c
    THEN CHOOSE i \in 1..Len(s) : s[i] = c /\ \A j \in 1..(i - 1) : s[j] # c
    ELSE 0

\* re.match(r"""(?s)^\s*([^<>="']+?)\s*=\s*(.*?)\s*$""", arg): the name is
\* what precedes the first "=", without the white space around it (a name of
\* white space only keeps its last character); the value is what follows,
\* without the white space around it
MatchArg(arg) ==
    LET p == FirstIndex(arg, "=")
        raw == SubSeq(arg, 1, p - 1)
    IN  IF p > 1 /\ \A i \in 1..(p - 1) : arg[i] \notin NameForbidden
        THEN [matched |-> TRUE,
              k |-> IF Strip(raw) = <<>> THEN <<raw[Len(raw)]>> ELSE Strip(raw),
              arg |-> Strip(SubSeq(arg, p + 1, Len(arg)))]
        ELSE [matched |-> FALSE, k |-> <<>>, arg |-> arg]

\* the length of the <noinclude/> tag s begins with (white space may follow
\* the "<"), 0 when s begins with no tag
RECURSIVE TagLen(_, _)
TagLen(s, i) ==
    IF i > Len(s) THEN 0
    ELSE IF s[i] = "noinclude/>" THEN i
    ELSE IF s[i] \in Whitespace THEN TagLen(s, i + 1)
    ELSE 0

\* re.sub(r"(?si)<\s*noinclude\s*/\s*>", "", arg)
RECURSIVE RemoveNoinclude(_)
RemoveNoinclude(s) ==
    IF Len(s) = 0 THEN <<>>
    ELSE IF s[1] = "<" /\ TagLen(s, 2) > 0
    THEN RemoveNoinclude(SubSeq(s, TagLen(s, 2) + 1, Len(s)))
    ELSE <<s[1]>> \o RemoveNoinclude(Tail(s))

\* html.unescape(arg): one pass, an entity is replaced by its character
RECURSIVE html_unescape(_)
html_unescape(s) ==
    IF Len(s) = 0 THEN <<>>
    ELSE IF Len(s) >= 2 /\ s[1] = "&" /\ s[2] = "amp;"
    THEN <<"&">> \o html_unescape(SubSeq(s, 3, Len(s)))
    ELSE IF Len(s) >= 2 /\ s[1] = "&" /\ s[2] = "lt;"
    THEN <<"<">> \o html_unescape(SubSeq(s, 3, Len(s)))
    ELSE <<s[1]>> \o html_unescape(Tail(s))

\* CleanArg that also trims the value
CleanArgTrimmed(arg) == Strip(html_unescape(RemoveNoinclude(arg)))

\* the two steps applied to every argument value
CleanArg(arg) == html_unescape(RemoveNoinclude(arg))

\* an explicit numeric name outside 1..1000 becomes 1000
ClampKey(k) == IF k < 1 \/ k > MaxKey THEN MaxKey ELSE k

\* the for loop over a list of arguments: num is the next positional key,
\* assigned the key each argument got so far
RECURSIVE FrameArgsOfList(_, _, _, _)
FrameArgsOfList(args, num, frame_args, assigned) ==
    IF Len(args) = 0 THEN [frame_args |-> frame_args, assigned |-> assigned]
    ELSE LET m == MatchArg(args[1])
             k == IF ~m.matched THEN IntKey(num)
                  ELSE IF IsDigit(m.k) THEN IntKey(ClampKey(ParseInt(m.k)))
                  ELSE StrKey(m.k)
             num1 == IF ~m.matched THEN num + 1
                     ELSE IF IsDigit(m.k) /\ num <= k.n THEN k.n + 1
                     ELSE num
         IN  FrameArgsOfList(Tail(args), num1,
                             DictSet(frame_args, k, CleanArg(m.arg)),
                             Append(assigned, k))

\* the for loop over a dict of arguments
RECURSIVE FrameArgsOfDict(_, _)
FrameArgsOfDict(items, frame_args) ==
    IF Len(items) = 0 THEN frame_args
    ELSE FrameArgsOfDict(Tail(items),
                         DictSet(frame_args, items[1].k, CleanArg(items[1].v)))

\* make_frame(pframe, title, args): the frame's args, parent and title (and
\* the key given to each argument of a list)
make_frame(pframe, title, args) ==
    IF args.kind = "dict"
    THEN [args |-> FrameArgsOfDict(args.items, <<>>), assigned |-> <<>>,
          getParent |-> pframe, getTitle |-> title]
    ELSE LET r == FrameArgsOfList(args.items, 1, <<>>, <<>>)
         IN  [args |-> r.frame_args, assigned |-> r.assigned,
              getParent |-> pframe, getTitle |-> title]

(***************************************************************************)
(* SpecFrame: make_frame applied to a list or to a dict of arguments.      *)
(***************************************************************************)
\* names of arguments: numbers in and out of 1..1000, with and without
\* white space, and a word
FrameNames ==
    {<<"0">>, <<"1">>, <<"2">>, <<" ", "2", " ">>, <<"1", "0", "0", "0">>,
     <<"1", "0", "0", "1">>, <<"k">>}

\* the arguments of the lists: named ones, unnamed ones, and one whose "="
\* is inside markup
KeyArgs ==
    {n \o <<"=", "v">> : n \in FrameNames}
    \cup {<<"a">>, <<"x">>, <<"<", "a", "=", "v">>}

ValueTokens == {"a", " ", "=", "&", "amp;", "lt;", "<", "noinclude/>"}

ValueTexts == SeqsUpTo(ValueTokens, MaxValueLen)

FrameInputs ==
    {PyList(l) : l \in SeqsUpTo(KeyArgs, MaxFrameArgs)}
    \cup {PyList(<<v>>) : v \in ValueTexts}
    \cup {PyDict(<<[k |-> k, v |-> v]>>) :
             k \in {IntKey(1), StrKey(<<"k">>)}, v \in ValueTexts}

InitFrame ==
    /\ lua = "LuaRuntime"
    /\ lua_invoke = "set"
    /\ lua_reset_env = "set"
    /\ env = "clean"
    /\ lua_depth = 1
    /\ expand_stack = <<>>
    /\ calls = <<>>
    /\ ev = Ev("start", 0, {})
    /\ inp \in [args : FrameInputs, title : {"name"}]
    /\ outp = NotYet

ApplyMakeFrame ==
    /\ outp = NotYet
    /\ outp' = make_frame(None, inp.title, inp.args)
    /\ UNCHANGED <<inp, machinevars>>

NextFrame == ApplyMakeFrame

SpecFrame == InitFrame /\ [][NextFrame]_vars

(***************************************************************************)
(* initialize_lua: the attribute filter given to the runtime.  An          *)
(* attribute name is a string (a sequence of characters), an integer or a  *)
(* bytes object.                                                           *)
(***************************************************************************)
\* filter_attribute_access without the test for the underscore
filter_attribute_access_any_str(obj, attr_name, is_setting) ==
    IF attr_name.t = "str"
    THEN [raised |-> FALSE, value |-> attr_name]
    ELSE [raised |-> TRUE, value |-> "AttributeError: access denied"]

filter_attribute_access(obj, attr_name, is_setting) ==
    IF attr_name.t = "str" /\ ~StartsWith(attr_name.s, <<"_">>)
    THEN [raised |-> FALSE, value |-> attr_name]
    ELSE [raised |-> TRUE, value |-> "AttributeError: access denied"]

AttrChars == {"a", "b", "_"}

AttrNames ==
    {StrKey(chars) : chars \in SeqsUpTo(AttrChars, MaxAttrLen)}
    \cup {IntKey(n) : n \in 0..1}
    \cup {[t |-> "bytes", s |-> chars] : chars \in {<<"a">>, <<"_", "a">>}}
    \cup {[t |-> "NoneType", s |-> <<>>]}

InitFilter ==
    /\ lua = "LuaRuntime"
    /\ lua_invoke = "set"
    /\ lua_reset_env = "set"
    /\ env = "used"
    /\ lua_depth = 1
    /\ expand_stack = <<>>
    /\ calls = <<>>
    /\ ev = Ev("start", 0, {})
    /\ inp \in [obj : {"frame", "ctx"}, attr_name : AttrNames, is_setting : BOOLEAN]
    /\ outp = NotYet

ApplyFilter ==
    /\ outp = NotYet
    /\ outp' = filter_attribute_access(inp.obj, inp.attr_name, inp.is_setting)
    /\ UNCHANGED <<inp, machinevars>>

NextFilter == ApplyFilter

SpecFilter == InitFilter /\ [][NextFilter]_vars

(***************************************************************************)
(* frame:callParserFunction.  An argument the guest passes is a string, a  *)
(* number, nil, a table of values (kv, its values in key order) or a table *)
(* with the fields name and args.                                          *)
(***************************************************************************)
PfStr(v) == [t |-> "str", v |-> v]
PfInt(v) == [t |-> "int", v |-> v]
PfNil == [t |-> "None"]
PfKv(vals) == [t |-> "kv", vals |-> vals]
PfTable(name, args) == [t |-> "table", name |-> name, args |-> args]

\* PARSER_FUNCTIONS: the names the host knows
PARSER_FUNCTIONS == {"#if"}

\* ctx._canonicalize_parserfn_name(name)
canonicalize_parserfn_name(name) == IF name = "#IF" THEN "#if" ELSE name

PfReturn(value, log, called, name, new_args) ==
    [raised |-> "none", value |-> value, log |-> log, called |-> called,
     name |-> name, new_args |-> new_args]

PfRaise(exc) ==
    [raised |-> exc, value |-> "", log |-> "none", called |-> FALSE,
     name |-> "", new_args |-> <<>>]

\* new_args.append(...) for each further argument: str(arg) of a scalar,
\* the values of a table
RECURSIVE AppendArgs(_, _)
AppendArgs(new_args, rest) ==
    IF Len(rest) = 0 THEN new_args
    ELSE AppendArgs(new_args \o (IF rest[1].t \in {"str", "int"} THEN <<rest[1].v>>
                                  ELSE rest[1].vals),
                    Tail(rest))

\* callParserFunction(frame, *args)
callParserFunction(frame, args) ==
    IF Len(args) < 1 THEN PfReturn("", "debug", FALSE, "", <<>>)
    ELSE LET first == args[1]
             rest == Tail(args)
         IN  IF first.t \notin {"str", "table"}
             THEN PfRaise("TypeError")          \* name["args"] of a number or of None
             ELSE IF first.t = "table" /\ first.args.t \notin {"str", "kv"}
             THEN PfRaise("TypeError")          \* dict(None), dict(1)
             ELSE IF first.t = "table" /\ Len(rest) > 0
             THEN PfRaise("AttributeError")     \* new_args is a dict: it has no append
             ELSE IF \E i \in 1..Len(rest) : rest[i].t \notin {"str", "int", "kv"}
             THEN PfRaise("AttributeError")     \* arg.items() of None or of a frame table
             ELSE LET name0 == IF first.t = "str" THEN first.v
                               ELSE IF first.name.t = "None" THEN ""
                               ELSE first.name.v
                      new_args == IF first.t = "str" THEN AppendArgs(<<>>, rest)
                                  ELSE IF first.args.t = "str" THEN <<first.args.v>>
                                  ELSE first.args.vals
                      name == canonicalize_parserfn_name(name0)
                  IN  IF name \notin PARSER_FUNCTIONS
                      THEN PfReturn("", "debug", FALSE, name, new_args)
                      ELSE PfReturn("result", "none", TRUE, name, new_args)

(***************************************************************************)
(* SpecParserFn: callParserFunction applied to the arguments of a guest.   *)
(***************************************************************************)
CallValues ==
    {PfStr("nosuch"), PfStr("#IF"), PfStr("x"), PfInt("1"), PfKv(<<"x">>)}
    \cup {PfTable(n, a) : n \in {PfStr("nosuch"), PfStr("#IF"), PfNil},
                          a \in {PfStr("x"), PfKv(<<"x">>), PfNil}}

InitParserFn ==
    /\ lua = "LuaRuntime"
    /\ lua_invoke = "set"
    /\ lua_reset_env = "set"
    /\ env = "used"
    /\ lua_depth = 1
    /\ expand_stack = <<>>
    /\ calls = <<>>
    /\ ev = Ev("start", 0, {})
    /\ inp \in [args : SeqsUpTo(CallValues, MaxCallArgs)]
    /\ outp = NotYet

ApplyParserFn ==
    /\ outp = NotYet
    /\ outp' = callParserFunction("frame", inp.args)
    /\ UNCHANGED <<inp, machinevars>>

NextParserFn == ApplyParserFn

SpecParserFn == InitParserFn /\ [][NextParserFn]_vars

(***************************************************************************)
(* frame:newParserValue and frame:newTemplateParserValue.  The guest calls *)
(* them on the frame it was given, which is the Lua table made of the      *)
(* frame dictionary (with the entries the sandbox adds), not the           *)
(* dictionary itself.                                                      *)
(***************************************************************************)
\* the entries of a frame: those make_frame sets and those the sandbox adds
FrameKeys ==
    {"args", "callParserFunction", "extensionTag", "expandTemplate", "getParent",
     "getTitle", "preprocess", "newParserValue", "newTemplateParserValue",
     "argumentPairs", "getArgument", "newChild"}

\* value_with_expand(frame, fexpander, x): with assertions enabled the test
\* isinstance(frame, dict) fails for the Lua table, and isinstance(x, str)
\* for a value that is no string; else the table with the expand entry
value_with_expand(frame, fexpander, x, assertions) ==
    IF assertions /\ (frame # "dict" \/ x.t # "str")
    THEN [raised |-> "AssertionError", made |-> FALSE, fexpander |-> fexpander, x |-> x]
    ELSE [raised |-> "none", made |-> TRUE, fexpander |-> fexpander, x |-> x]

\* debugNewParserValue(ctx, x)
debugNewParserValue(frame, x, assertions) ==
    value_with_expand(frame, "preprocess", x, assertions)

\* debugNewTemplateParserValue(ctx, x)
debugNewTemplateParserValue(frame, x, assertions) ==
    value_with_expand(frame, "expand", x, assertions)

\* the lambda of the wrapper: frame[fexpander](x).  An entry the frame has
\* not is None, and calling it raises; preprocess and expandTemplate take
\* their first argument as the frame, so x is the frame and no argument is
\* left: they log and return "" without expanding.
expand(obj) ==
    IF obj.fexpander \notin FrameKeys
    THEN [raised |-> "TypeError", entry |-> obj.fexpander, frame |-> PfNil,
          args |-> <<>>, expanded |-> FALSE, value |-> "", log |-> "none"]
    ELSE LET frame == obj.x
             args == <<>>
         IN  IF Len(args) < 1
             THEN [raised |-> "none", entry |-> obj.fexpander, frame |-> frame,
                   args |-> args, expanded |-> FALSE, value |-> "", log |-> "debug"]
             ELSE [raised |-> "none", entry |-> obj.fexpander, frame |-> frame,
                   args |-> args, expanded |-> TRUE, value |-> "expanded", log |-> "none"]

(***************************************************************************)
(* SpecParserValue: a wrapper is constructed, its expand is invoked.       *)
(***************************************************************************)
WrappedValues == {[t |-> "str", s |-> v] : v \in ValueTexts} \cup {[t |-> "table", s |-> <<>>]}

InitParserValue ==
    /\ lua = "LuaRuntime"
    /\ lua_invoke = "set"
    /\ lua_reset_env = "set"
    /\ env = "used"
    /\ lua_depth = 1
    /\ expand_stack = <<>>
    /\ calls = <<>>
    /\ ev = Ev("start", 0, {})
    /\ inp \in [method : {"newParserValue", "newTemplateParserValue"},
                x : WrappedValues, assertions : BOOLEAN]
    /\ outp = NotYet

\* the guest calls frame:newParserValue(x) or frame:newTemplateParserValue(x)
NewValue ==
    /\ outp = NotYet
    /\ outp' = [obj |-> IF inp.method = "newParserValue"
                        THEN debugNewParserValue("LuaTable", inp.x, inp.assertions)
                        ELSE debugNewTemplateParserValue("LuaTable", inp.x, inp.assertions),
                expands |-> 0, expansions |-> 0, last |-> NotYet]
    /\ UNCHANGED <<inp, machinevars>>

\* the guest calls value:expand()
ExpandValue ==
    /\ outp # NotYet
    /\ outp.obj.made
    /\ outp.expands < MaxExpands
    /\ LET r == expand(outp.obj)
       IN  outp' = [outp EXCEPT !.expands = @ + 1,
                                !.expansions = IF r.expanded THEN @ + 1 ELSE @,
                                !.last = r]
    /\ UNCHANGED <<inp, machinevars>>

NextParserValue == NewValue \/ ExpandValue

SpecParserValue == InitParserValue /\ [][NextParserValue]_vars

(***************************************************************************)
(* Properties of call_lua_sandbox (under Spec).                            *)
(***************************************************************************)
Finished == ev.event \in {"return", "raise"}

LifecycleOps == {"LuaRuntime", "phase1", "phase2", "lua_reset_env", "set_entry_points"}

\* C2: call_lua_sandbox never raises to its caller: every call ends by
\* returning a text.
C2_NeverRaises == ev.event # "raise"

\* C3: when an outermost call has finished, by a return or by an exception,
\* ctx.lua_depth has the value it had when the call began.
C3_DepthRestored == (Finished /\ ev.level = 1) => lua_depth = ev.depth0

\* C4: a call with fewer than two arguments returns the re-assembled markup
\* ("{{name:}}" for ["name"]) and touches neither the runtime, the depth nor
\* the expand stack.
C4_TooFewReturnsMarkup ==
    (Finished /\ TooFew(ev.args)) =>
        /\ ev.event = "return"
        /\ Len(ev.args) = 1 => ev.value = <<"{{", ev.args[1], ":", "}}">>
        /\ ev.ops = {}
        /\ lua_depth = ev.depth0
        /\ expand_stack = ev.stack0

\* C5: the guest function of a top-level invocation executes only after that
\* invocation has initialized or reset the sandbox.
C5_TopLevelPrepared ==
    (calls # <<>> /\ calls[1].pc \in {"guest", "callback"}) => calls[1].prepared

\* C6: a step of a nested invocation performs no runtime construction, no
\* environment reset, no phase-2 load and no replacement of the entry
\* points, and a nested invocation finds a depth of at least 1 on entry.
C6_NestedNoLifecycle ==
    ev.level >= 2 =>
        /\ ev.ops \cap LifecycleOps = {}
        /\ ev.event \in {"enter", "return", "raise"} => ev.depth0 >= 1

\* C6 witness: a nested invocation with two arguments or more has been entered.
C6_Witness == ev.event = "enter" /\ ev.level = 2 /\ Len(ev.args) >= 2

\* C7: whenever a call has finished, by a return or by an exception, the
\* expand stack is what it was when the call began.
C7_StackRestored == Finished => expand_stack = ev.stack0

\* C7 witness: an exception escaped a call of which a callback had left its
\* label on the stack.
C7_Witness == ev.event = "raise" /\ ev.popped >= 2 /\ expand_stack = ev.stack0

\* C14: the runtime is constructed at most once on a context: a step
\* constructs it only while ctx.lua is None and only in a call with at least
\* two arguments, ctx.lua leaves None by a construction only, and once set
\* it is never replaced or unset again.
C14_ConstructedOnce ==
    [][/\ "LuaRuntime" \in ev'.ops => (lua = "None" /\ Len(ev'.args) >= 2)
       /\ (lua = "None" /\ lua' # "None") => "LuaRuntime" \in ev'.ops
       /\ lua # "None" => lua' = lua]_vars

\* C14 witness: a later top-level call has reset the runtime that an earlier
\* call constructed.
C14_Witness ==
    /\ ev.event = "enter" /\ ev.level = 1
    /\ "lua_reset_env" \in ev.ops /\ "LuaRuntime" \notin ev.ops
    /\ lua = "LuaRuntime"

\* C16: whenever ctx.lua is set, the invoke and the reset entry points of a
\* completed phase 2 are installed (an initialization that fails part-way
\* leaves ctx.lua unset).
C16_ReadyHasEntryPoints ==
    lua # "None" => (lua_invoke = "set" /\ lua_reset_env = "set")

Applied == outp # NotYet

\* C8 as stated: a failure whose text contains the translations marker
\* returns the empty string, whatever else the text contains.
C8_Original ==
    (Applied /\ outp.failed /\ Contains(outp.text, TranslationsMarker)) => outp.value = <<>>

\* C8: a failure whose text contains the translations marker and not the
\* 'debug.error' marker returns the empty string; with the 'debug.error'
\* marker the banner is returned.
C8_TranslationsSwallowed ==
    (Applied /\ outp.failed /\ Contains(outp.text, TranslationsMarker)) =>
        (outp.value = <<>>) = ~Contains(outp.text, DebugErrorMarker)

\* C8 witness: a swallowed failure whose text holds the timeout marker too.
C8_Witness ==
    /\ Applied /\ outp.failed /\ outp.value = <<>>
    /\ Contains(outp.text, TranslationsMarker)
    /\ Contains(outp.text, TimeoutMarker)

\* C9: the banner of a failure names the timeout variant when the text
\* contains the timeout marker, and the generic variant when it does not.
C9_TimeoutBanner ==
    (Applied /\ outp.failed /\ outp.value # <<>>) =>
        outp.value =
            <<"<strong class=\"error\">",
              IF Contains(outp.text, TimeoutMarker)
              THEN "Lua timeout error" ELSE "Lua execution error",
              " in Module:", html_escape(inp.modname),
              " function ", html_escape(inp.modfn), "</strong>">>

\* C9 witness: a banner of the timeout variant for a raised LuaError.
C9_Witness ==
    /\ Applied /\ outp.failed /\ inp.out.kind = "LuaError"
    /\ Contains(outp.text, TimeoutMarker)
    /\ outp.value # <<>> /\ outp.value[2] = "Lua timeout error"

\* the failure text carries one of the three known markers
KnownMarker(text) ==
    \/ Contains(text, DebugErrorMarker)
    \/ Contains(text, TranslationsMarker)
    \/ Contains(text, LangNilMarker) /\ Contains(text, GetLinkPageMarker)

\* one of the two swallowed cases, in the order of the tests
Swallowed(text) ==
    /\ ~Contains(text, DebugErrorMarker)
    /\ \/ Contains(text, TranslationsMarker)
       \/ Contains(text, LangNilMarker) /\ Contains(text, GetLinkPageMarker)

\* C17: for a failed invocation the error-level diagnostic is emitted exactly
\* when the text carries none of the three markers and the expand stack does
\* not contain the "check deprecated lang param usage" frame; in the two
\* swallowed cases nothing is logged and the result is the empty text; in
\* every other failure the result is the error banner.
C17_ErrorLevelExactly ==
    (Applied /\ outp.failed) =>
        /\ (outp.log = "error") =
               (~KnownMarker(outp.text) /\ ~Contains(inp.stack, DeprecatedLangFrame))
        /\ Swallowed(outp.text) => (outp.log = "none" /\ outp.value = <<>>)
        /\ ~Swallowed(outp.text) =>
               /\ Len(outp.value) = 7
               /\ outp.value[1] = "<strong class=\"error\">"
               /\ outp.value[7] = "</strong>"

\* C17 witness: a failure without a marker under the deprecated-lang frame:
\* the banner with a debug-level diagnostic.
C17_Witness ==
    /\ Applied /\ outp.failed /\ ~KnownMarker(outp.text)
    /\ Contains(outp.text, LangNilMarker)
    /\ Contains(inp.stack, DeprecatedLangFrame)
    /\ outp.log = "debug" /\ outp.value # <<>>

(***************************************************************************)
(* Properties of make_frame (under SpecFrame).                             *)
(***************************************************************************)
ListInput == Applied /\ inp.args.kind = "list"

\* the argument has an explicit numeric name
NumericName(arg) == MatchArg(arg).matched /\ IsDigit(MatchArg(arg).k)

\* the argument is unnamed
Unnamed(arg) == ~MatchArg(arg).matched

\* C11: no unnamed argument of the list gets the key of an argument with an
\* explicit numeric name, whichever of the two comes first.
C11_NoCollision ==
    ListInput =>
        \A i, j \in 1..Len(inp.args.items) :
            (Unnamed(inp.args.items[i]) /\ NumericName(inp.args.items[j]))
                => outp.assigned[i] # outp.assigned[j]

\* C12: every integer key of the frame_args built from a list is in 1..1000.
C12_KeysInRange ==
    ListInput =>
        \A i \in 1..Len(outp.args) :
            outp.args[i].k.t = "int" => (outp.args[i].k.n >= 1 /\ outp.args[i].k.n <= 1000)

\* the text holds a <noinclude/> tag
HasTag(v) ==
    \E i, j \in 1..Len(v) :
        /\ i < j /\ v[i] = "<" /\ v[j] = "noinclude/>"
        /\ \A n \in (i + 1)..(j - 1) : v[n] = " "

\* the text holds an HTML entity
HasEntity(v) ==
    \E i \in 1..(Len(v) - 1) : v[i] = "&" /\ v[i + 1] \in {"amp;", "lt;"}

\* the one argument of the input: the value of a dict's item, or an unnamed
\* argument of a list
OneValue ==
    IF inp.args.kind = "dict" THEN inp.args.items[1].v ELSE inp.args.items[1]

\* C15: a value without a <noinclude/> tag and without an HTML entity, given
\* under a key of a dict or as an unnamed argument of a list, is stored
\* unchanged, and removing tags and unescaping again changes nothing.
C15_CleanUnchanged ==
    (/\ Applied
     /\ Len(inp.args.items) = 1
     /\ inp.args.kind = "list" => Unnamed(inp.args.items[1])
     /\ ~HasTag(OneValue) /\ ~HasEntity(OneValue))
    => /\ Len(outp.args) = 1
       /\ outp.args[1].v = OneValue
       /\ outp.args[1].k = (IF inp.args.kind = "dict" THEN inp.args.items[1].k ELSE IntKey(1))
       /\ html_unescape(RemoveNoinclude(outp.args[1].v)) = outp.args[1].v

\* C15 witness: a value of a dict with white space at its end, with "&" and
\* "<" that begin no entity and no tag, was stored as it is.
C15_Witness ==
    /\ Applied /\ inp.args.kind = "dict"
    /\ OneValue \in {<<"&", " ">>, <<"<", " ">>}
    /\ outp.args[1].v = OneValue

(***************************************************************************)
(* Properties of callParserFunction (under SpecParserFn).                  *)
(***************************************************************************)
Scalar(v) == v.t \in {"str", "int"}

\* a table with a name and with args that are a table or one string
NameArgsTable(v) ==
    v.t = "table" /\ v.name.t = "str" /\ v.args.t \in {"str", "kv"}

\* the call has one of the accepted shapes: scalars after a name; one table
\* with name and args; such a table followed by further arguments
AcceptedShape(args) ==
    /\ Len(args) >= 1
    /\ \/ args[1].t = "str" /\ \A i \in 2..Len(args) : Scalar(args[i])
       \/ NameArgsTable(args[1]) /\ Len(args) = 1
       \/ NameArgsTable(args[1]) /\ Len(args) > 1
             /\ \A i \in 2..Len(args) : Scalar(args[i]) \/ args[i].t = "kv"

\* the name the call gives
CalledName(args) == IF args[1].t = "str" THEN args[1].v ELSE args[1].name.v

\* C24: a call of an accepted shape whose function name is unknown returns
\* the empty text, logs a debug note, calls no parser function and does not
\* raise.
C24_UnknownNonFatal ==
    (Applied /\ AcceptedShape(inp.args) /\ CalledName(inp.args) \in {"nosuch", "x"}) =>
        /\ outp.raised = "none"
        /\ outp.value = ""
        /\ outp.log = "debug"
        /\ ~outp.called

(***************************************************************************)
(* Properties of the parser values (under SpecParserValue).                *)
(***************************************************************************)
\* C25: constructing the wrapper gives the wrapper and expands nothing in
\* the host; each invocation of expand calls the frame's preprocess (for
\* newParserValue) or the frame's expandTemplate (for
\* newTemplateParserValue) with the wrapped value as its argument.
C25_LazyWrappers ==
    (outp # NotYet /\ inp.x.t = "str") =>
        /\ outp.obj.made
        /\ outp.expands = 0 => outp.expansions = 0
        /\ outp.expands > 0 =>
               /\ outp.last.raised = "none"
               /\ outp.last.entry = (IF inp.method = "newParserValue"
                                     THEN "preprocess" ELSE "expandTemplate")
               /\ outp.last.args = <<inp.x>>

(***************************************************************************)
(* Properties of the attribute filter (under SpecFilter).                  *)
(***************************************************************************)
\* C13: the filter raises for every name that is not a string and for every
\* string beginning with an underscore, for reads and for writes alike, and
\* returns every other string unchanged.
C13_FilterDenies ==
    Applied =>
        IF inp.attr_name.t # "str" \/ (Len(inp.attr_name.s) > 0 /\ inp.attr_name.s[1] = "_")
        THEN outp.raised
        ELSE ~outp.raised /\ outp.value = inp.attr_name

\* C13 witness: a write to a name beginning with an underscore was denied.
C13_Witness ==
    /\ Applied /\ inp.is_setting
    /\ inp.attr_name = StrKey(<<"_", "a">>)
    /\ outp.raised

(***************************************************************************)
(* Properties of lua_loader (under SpecLoader).                            *)
(***************************************************************************)
\* the trimmed reference is "<prefix>:_..." for the canonical prefix, the
\* namespace's own name or one of its aliases
InternalRef ==
    \E p \in {ModuleColon, inp.ns_data.name \o <<":">>}
             \cup {a \o <<":">> : a \in inp.ns_data.aliases} :
        StartsWith(Strip(inp.modname), p \o <<"_">>)

\* C1: for a reference to an internal module (local name beginning with "_"
\* in the Module namespace, aliases included) lua_loader does not call
\* read_by_title and does not return text of the content store.
C1_InternalNeverFromStore ==
    (Applied /\ InternalRef) =>
        /\ ~outp.ret.queried
        /\ outp.ret.data.src # "store"

\* C1 witness: an internal module named through an alias, with a page of
\* that title in the content store, was not found.
C1_Witness ==
    /\ Applied /\ InternalRef /\ outp.store
    /\ StartsWith(Strip(inp.modname), <<"M", "o", "d", ":", "_">>)
    /\ outp.ret.data = NoData

\* the reference was treated as a library path
IsLibraryRef == Applied /\ outp.ret.path # <<>>

\* the roots that do not exclude the reference and have the file
Eligible == {i \in 1..Len(builtin_lua_search_paths) :
                Strip(inp.modname) \notin builtin_lua_search_paths[i].ignore}

Hits == Eligible \cap outp.files

FirstHit == CHOOSE i \in Hits : \A j \in Hits : i <= j

\* C19: for a library reference the roots are walked in list order: a root
\* whose exclusion set holds the reference is never tested, the first
\* non-skipped root with the file gives the result and no later root is
\* tested, and without such a root the result is not-found.
C19_FirstMatchWins ==
    IsLibraryRef =>
        /\ \A n \in 1..Len(outp.ret.tested) : outp.ret.tested[n] \in Eligible
        /\ \A n \in 1..(Len(outp.ret.tested) - 1) : outp.ret.tested[n] < outp.ret.tested[n + 1]
        /\ IF Hits = {}
           THEN /\ outp.ret.data = NoData
                /\ {outp.ret.tested[n] : n \in 1..Len(outp.ret.tested)} = Eligible
           ELSE /\ outp.ret.data = [src |-> "file", root |-> FirstHit, name |-> outp.ret.path]
                /\ {outp.ret.tested[n] : n \in 1..Len(outp.ret.tested)}
                      = {i \in Eligible : i <= FirstHit}

\* C19 witness: "string" has a file under both roots; the first root
\* excludes it, the file of the second root is returned.
C19_Witness ==
    /\ IsLibraryRef
    /\ Strip(inp.modname) = <<"s", "t", "r", "i", "n", "g">>
    /\ outp.files = {1, 2}
    /\ outp.ret.data.src = "file" /\ outp.ret.data.root = 2
    /\ outp.ret.tested = <<2>>

\* C20: the path appended to a search root for a library reference does not
\* begin with a path separator.
C20_NoLeadingSeparator == IsLibraryRef => outp.ret.path[1] # "/"

\* s holds the character c twice in a row
HasPair(s, c) == \E i \in 1..(Len(s) - 1) : s[i] = c /\ s[i + 1] = c

\* the path without the extension ".lua" that was appended to it
PathStem == SubSeq(outp.ret.path, 1, Len(outp.ret.path) - 4)

\* s has a component "..": two dots between separators or the ends of s
HasDotDotComponent(s) ==
    \E i \in 1..(Len(s) - 1) :
        /\ s[i] = "." /\ s[i + 1] = "."
        /\ (i = 1 \/ s[i - 1] = "/")
        /\ (i + 1 = Len(s) \/ s[i + 2] = "/")

\* C21 as stated: the path built for a library reference contains no ".."
\* and no "//".
C21_Original ==
    IsLibraryRef => (~HasPair(outp.ret.path, ".") /\ ~HasPair(outp.ret.path, "/"))

\* C21: the path built for a library reference contains no "//" and no
\* component "..", and contains ".." only where a dot at the end of the
\* normalized reference meets the dot of the extension: the path before the
\* extension is appended contains no "..".
C21_Confined ==
    IsLibraryRef =>
        /\ ~HasPair(outp.ret.path, "/")
        /\ ~HasDotDotComponent(outp.ret.path)
        /\ ~HasPair(PathStem, ".")
        /\ outp.ret.path = PathStem \o <<".", "l", "u", "a">>

\* C21 witness: a control character between two dots; the dots were joined
\* and collapsed to one, which meets the dot of the extension.
C21_Witness ==
    /\ IsLibraryRef
    /\ inp.modname = <<".", "\n", ".">>
    /\ outp.ret.path = <<".", ".", "l", "u", "a">>

(***************************************************************************)
(* Properties of the JSON functions (under SpecJson).                      *)
(***************************************************************************)
\* a table as the mapping of its keys to its values, whatever the order of
\* enumeration
RECURSIVE Mapping(_)
Mapping(t) ==
    {[k |-> t.e[i].k,
      v |-> IF t.e[i].v.kind = "table" THEN Mapping(t.e[i].v) ELSE {t.e[i].v}] :
        i \in 1..Len(t.e)}

Decoded == outp # NotYet /\ outp.decoded # NotYet

KeySet(t) == {t.e[i].k : i \in 1..Len(t.e)}

\* C10: without the preserve-keys flag, a table of keys {1,2,3} and every
\* table of integer keys that are not a run 1..N comes back from encode and
\* decode with the same integer keys and the same value at each key.
C10_RoundTrip ==
    (/\ Decoded
     /\ inp.flags = 0
     /\ AllIntKeys(inp.table.e)
     /\ KeySet(inp.table) = {IntKey(1), IntKey(2), IntKey(3)} \/ ~IsRun(inp.table.e))
    => Mapping(outp.decoded) = Mapping(inp.table)

\* the value the table has at key k
ValueAt(entries, k) == entries[CHOOSE i \in 1..Len(entries) : entries[i].k = k].v

\* the document the claim describes: an array in ascending key order for a
\* table whose keys are the integers 1..N (without the flag), else an object
\* of the stringified keys; the same at every level
RECURSIVE ClaimedJson(_, _)
ClaimedJson(x, flags) ==
    IF x.kind # "table" THEN x
    ELSE IF /\ flags % 2 = 0
            /\ \A i \in 1..Len(x.e) : x.e[i].k.t = "int"
            /\ KeySet(x) = {IntKey(n) : n \in 1..Len(x.e)}
    THEN PyList([n \in 1..Len(x.e) |-> ClaimedJson(ValueAt(x.e, IntKey(n)), flags)])
    ELSE PyDict(SortItems([i \in 1..Len(x.e) |->
                              [k |-> StrKey(KeyStr(x.e[i].k)),
                               v |-> ClaimedJson(x.e[i].v, flags)]]))

\* C22: the document mw_text_jsonencode makes of a table is, at every level,
\* an array with the elements in ascending key order when the flag is not
\* set and the keys are exactly the integers 1..N, and else an object with
\* every key stringified; scalars are unchanged.
C22_ArrayOrObject ==
    outp # NotYet => outp.doc = ClaimedJson(inp.table, inp.flags)

(***************************************************************************)
(* Properties of mw_text_jsondecode (under SpecDecode).                    *)
(***************************************************************************)
\* the key the claim gives to a member: the name itself with the flag or
\* when it is not all digits, else the integer it denotes
ClaimedKey(name, flags) ==
    IF flags % 2 = 0 /\ IsDigit(name.s) THEN IntKey(ParseInt(name.s)) ELSE name

\* the table t has one entry for each member of the document x, with the
\* member's converted value, at every level
RECURSIVE Lossless(_, _, _)
Lossless(x, t, flags) ==
    CASE x.kind = "dict" ->
            /\ t.kind = "table"
            /\ Len(t.e) = Len(x.items)
            /\ \A i \in 1..Len(x.items) :
                   \E j \in 1..Len(t.e) :
                       /\ t.e[j].k = ClaimedKey(x.items[i].k, flags)
                       /\ Lossless(x.items[i].v, t.e[j].v, flags)
      [] x.kind = "list" ->
            /\ t.kind = "table"
            /\ Len(t.e) = Len(x.items)
            /\ \A i \in 1..Len(x.items) :
                   /\ t.e[i].k = IntKey(i)
                   /\ Lossless(x.items[i], t.e[i].v, flags)
      [] OTHER -> t = x

\* C23: the table made of a JSON object has exactly one entry for each
\* member, with the member's converted value; with the flag the keys stay
\* strings, without it names of digits become integers, and no two members
\* are merged.
C23_Lossless == Applied => Lossless(inp.doc, outp, inp.flags)

====
